---- MODULE Spec2Model ----
(***************************************************************************)
(* Pet Store Service: the request handlers of service/routes.py over the   *)
(* record store of service/models.py (Pet).  One atomic action per request *)
(* in Spec; in SpecConc the purchase handler is split at its store calls.  *)
(***************************************************************************)
EXTENDS Integers, Sequences, FiniteSets, TLC

VARIABLES
    store,      \* the record store: pet id -> persisted Pet
    nextId,     \* the id the store assigns to the next created Pet
    req,        \* the request handled by the last step
    resp,       \* the response returned by the last step
    before,     \* history: the store as the request of the last step found it
    fresh,      \* history: id -> body returned by Create, until that id is updated/purchased/deleted
    sold,       \* history: ids purchased with 200 and not successfully updated since
    soldKept,   \* history: ids purchased with 200 and neither updated nor deleted since
    pc,         \* SpecConc: position of each concurrent purchase handler
    wid,        \* SpecConc: the path id of each concurrent purchase handler
    wpet,       \* SpecConc: the Pet object each handler got from Pet.find
    wstatus,    \* SpecConc: the status each handler returned
    wread,      \* SpecConc history: the available flag each handler read
    wseen,      \* SpecConc history: how many purchase writes the pet had when the handler read it
    writes      \* SpecConc history: id -> number of purchase writes so far

seqvars == <<req, resp, before, fresh, sold, soldKept>>
concvars == <<pc, wid, wpet, wstatus, wread, wseen, writes>>
vars == <<store, nextId, req, resp, before, fresh, sold, soldKept,
          pc, wid, wpet, wstatus, wread, wseen, writes>>

----------------------------------------------------------------------------
(* Bounds *)

MaxPets == 2

PetIds == 1..MaxPets

Workers == {1, 2}

----------------------------------------------------------------------------
(* HTTP status codes (service/status.py) *)

HTTP_200_OK == 200
HTTP_201_CREATED == 201
HTTP_204_NO_CONTENT == 204
HTTP_400_BAD_REQUEST == 400
HTTP_404_NOT_FOUND == 404
HTTP_409_CONFLICT == 409
HTTP_415_UNSUPPORTED_MEDIA_TYPE == 415

----------------------------------------------------------------------------
(* Text.  Values that are lower-cased by the handlers are sequences of     *)
(* characters; the other texts are strings.                                *)

LowerTable == [Y |-> "y", E |-> "e", S |-> "s", T |-> "t", R |-> "r", U |-> "u",
               N |-> "n", O |-> "o"]

LowerChar(c) == IF c \in DOMAIN LowerTable THEN LowerTable[c] ELSE c

\* str.lower()
lower(s) == [i \in 1..Len(s) |-> LowerChar(s[i])]

TruthyTokens == { <<"y","e","s">>, <<"y">>, <<"t","r","u","e">>, <<"t">>, <<"1">> }

\* faulty variant: the value is compared without being lower-cased
is_available_no_lower(available) == available \in TruthyTokens

\* available.lower() in ["yes", "y", "true", "t", "1"]
is_available(available) == lower(available) \in TruthyTokens

\* Python truthiness of a str (a missing query parameter is modelled by absence, see Has)
Truthy(v) == Len(v) > 0

----------------------------------------------------------------------------
(* Pet (service/models.py) *)

Gender == [MALE |-> 0, FEMALE |-> 1, UNKNOWN |-> 3]

GenderName(g) == CHOOSE n \in DOMAIN Gender : Gender[n] = g

\* Pet.serialize(): the five fields, gender by its name
serialize(pet) ==
    [id |-> pet.id, name |-> pet.name, category |-> pet.category,
     available |-> pet.available, gender |-> GenderName(pet.gender)]

\* whether Pet.deserialize(data) accepts the mapping (else DataValidationError,
\* answered 400): the four fields are present, available is a boolean and
\* gender names a member of Gender
Valid(data) ==
    /\ {"name", "category", "available", "gender"} \subseteq DOMAIN data
    /\ data.available \in BOOLEAN
    /\ data.gender \in DOMAIN Gender

\* Pet.deserialize(data) on a Pet: the four mutable fields are replaced
deserialize(pet, data) ==
    [id |-> pet.id, name |-> data.name, category |-> data.category,
     available |-> data.available, gender |-> Gender[data.gender]]

\* Pet(): a new record without id
NewPet == [id |-> 0, name |-> "", category |-> "", available |-> FALSE, gender |-> Gender.UNKNOWN]

\* Pet.find(pet_id) is not None
Found(s, pet_id) == pet_id \in DOMAIN s

\* Pet.find(pet_id)
find(s, pet_id) == s[pet_id]

\* pet.create(): the store assigns the id
create(s, n, pet) == [i \in DOMAIN s \cup {n} |-> IF i = n THEN [pet EXCEPT !.id = n] ELSE s[i]]

\* pet.update(): the record with the pet's id is replaced
update(s, pet) == [i \in DOMAIN s \cup {pet.id} |-> IF i = pet.id THEN pet ELSE s[i]]

\* pet.delete()
delete(s, pet) == [i \in DOMAIN s \ {pet.id} |-> s[i]]

RECURSIVE PetsFrom(_, _)
PetsFrom(s, i) ==
    IF i > MaxPets THEN <<>>
    ELSE (IF i \in DOMAIN s THEN <<s[i]>> ELSE <<>>) \o PetsFrom(s, i + 1)

\* Pet.all()
all(s) == PetsFrom(s, 1)

find_by_category(s, category) == SelectSeq(all(s), LAMBDA p : p.category = category)

find_by_name(s, name) == SelectSeq(all(s), LAMBDA p : p.name = name)

find_by_availability(s, available) == SelectSeq(all(s), LAMBDA p : p.available = available)

find_by_gender(s, gender) == SelectSeq(all(s), LAMBDA p : GenderName(p.gender) = gender)

----------------------------------------------------------------------------
(* Requests *)

NoArg == [k \in {} |-> k]

CategoryArgs == {NoArg, [category |-> ""], [category |-> "dog"]}
NameArgs == {NoArg, [name |-> ""], [name |-> "kitty"]}
AvailableArgs == {NoArg, [available |-> <<>>], [available |-> <<"Y","e","s">>],
                  [available |-> <<"1">>], [available |-> <<"n","o">>]}
GenderArgs == {NoArg, [gender |-> ""], [gender |-> "MALE"]}

\* the Content-Type header as request.headers.get returns it ("None": no header)
None == "None"
JSON == "application/json"
FORM == "application/x-www-form-urlencoded"
ContentTypes == {None, "", JSON, FORM, "text/plain"}

JsonPayloads ==
    { [name |-> "fido", category |-> "dog", available |-> TRUE, gender |-> "MALE"],
      [id |-> 2, name |-> "kitty", category |-> "cat", available |-> FALSE, gender |-> "FEMALE"],
      [category |-> "dog", available |-> TRUE, gender |-> "MALE"],
      [name |-> "fido", category |-> "dog", available |-> TRUE, gender |-> "ALIEN"] }

FormPayloads ==
    { [name |-> "kitty", category |-> "cat", available |-> <<"Y","e","s">>, gender |-> "FEMALE"],
      [name |-> "fido", category |-> "dog", available |-> <<"n","o">>, gender |-> "MALE"],
      [name |-> "fido", category |-> "dog", available |-> <<"T">>] }

NoRequest == [op |-> "none"]
NoResponse == [status |-> 0, body |-> [text |-> ""], headers |-> NoArg]

\* a request body: JSON text or form-encoded fields
JsonBody(d) == [json |-> d]
FormBody(d) == [form |-> d]

\* whether the body parses as JSON (request.get_json) / as form fields (request.form)
IsJson(payload) == "json" \in DOMAIN payload
IsForm(payload) == "form" \in DOMAIN payload

\* request.args.get(k) is not None
Has(args, k) == k \in DOMAIN args

----------------------------------------------------------------------------
(* Handlers: each gives the response and the store it leaves *)

Outcome(status, body, headers, s, n) ==
    [status |-> status, body |-> body, headers |-> headers, store |-> s, nextId |-> n]

\* abort(status, message): nothing is persisted
abort(status, message) == Outcome(status, [message |-> message], NoArg, store, nextId)

\* index(): the static landing page
index == Outcome(HTTP_200_OK, [file |-> "index.html"], NoArg, store, nextId)

\* faulty variant: the name filter is tested before the category filter
list_pets_name_first(args) ==
    LET pets ==
            IF Has(args, "name") /\ Truthy(args.name)
                THEN find_by_name(store, args.name)
            ELSE IF Has(args, "category") /\ Truthy(args.category)
                THEN find_by_category(store, args.category)
            ELSE IF Has(args, "available") /\ Truthy(args.available)
                THEN find_by_availability(store, lower(args.available) \in TruthyTokens)
            ELSE IF Has(args, "gender") /\ Truthy(args.gender)
                THEN find_by_gender(store, args.gender)
            ELSE all(store)
        results == [i \in 1..Len(pets) |-> serialize(pets[i])]
    IN  [status |-> HTTP_200_OK, body |-> [pets |-> results], headers |-> NoArg,
         store |-> store, nextId |-> nextId]

list_pets(args) ==
    LET pets ==
            IF Has(args, "category") /\ Truthy(args.category)
                THEN find_by_category(store, args.category)
            ELSE IF Has(args, "name") /\ Truthy(args.name)
                THEN find_by_name(store, args.name)
            ELSE IF Has(args, "available") /\ Truthy(args.available)
                THEN find_by_availability(store, is_available(args.available))
            ELSE IF Has(args, "gender") /\ Truthy(args.gender)
                THEN find_by_gender(store, args.gender)
            ELSE all(store)
        results == [i \in 1..Len(pets) |-> serialize(pets[i])]
    IN  Outcome(HTTP_200_OK, [pets |-> results], NoArg, store, nextId)

get_pets(pet_id) ==
    IF ~Found(store, pet_id)
        THEN abort(HTTP_404_NOT_FOUND, <<"Pet with id", pet_id, "was not found.">>)
    ELSE Outcome(HTTP_200_OK, [pet |-> serialize(find(store, pet_id))], NoArg, store, nextId)

\* the abort check_content_type makes; status 0 when it returns (Content-Type OK)
check_content_type(content_type, media_type) ==
    IF content_type = None \/ ~Truthy(content_type)
        THEN [status |-> HTTP_400_BAD_REQUEST, message |-> <<"No Content-Type set">>]
    ELSE IF content_type = media_type THEN [status |-> 0, message |-> <<"OK">>]
    ELSE [status |-> HTTP_415_UNSUPPORTED_MEDIA_TYPE,
          message |-> <<"Content-Type must be", media_type>>]

\* the data mapping create_pets builds from request.form
FormData(form) ==
    [name |-> form.name, category |-> form.category,
     available |-> is_available(form.available), gender |-> form.gender]

\* faulty variant: pet.create() runs before pet.deserialize(data)
create_pets_create_first(content_type, payload) ==
    IF content_type = None \/ ~Truthy(content_type)
        THEN abort(HTTP_400_BAD_REQUEST, <<"No Content-Type set">>)
    ELSE IF content_type \notin {FORM, JSON}
        THEN abort(HTTP_400_BAD_REQUEST, <<"Unsupported Content-Type:", content_type>>)
    ELSE IF content_type = FORM /\
            (~IsForm(payload)
             \/ ~({"name", "category", "available", "gender"} \subseteq DOMAIN payload.form))
        THEN abort(HTTP_400_BAD_REQUEST, <<"KeyError">>)
    ELSE IF content_type = JSON /\ ~IsJson(payload)
        THEN abort(HTTP_400_BAD_REQUEST, <<"Failed to decode JSON object">>)
    ELSE
        LET data == IF content_type = FORM THEN FormData(payload.form) ELSE payload.json
        IN  IF ~Valid(data) THEN abort(HTTP_400_BAD_REQUEST, <<"DataValidationError">>)
            ELSE LET pet == [deserialize(NewPet, data) EXCEPT !.id = nextId]
                 IN  Outcome(HTTP_201_CREATED, [pet |-> serialize(pet)],
                             [Location |-> <<"/pets", pet.id>>],
                             create(store, nextId, NewPet), nextId + 1)

create_pets(content_type, payload) ==
    IF content_type = None \/ ~Truthy(content_type)
        THEN abort(HTTP_400_BAD_REQUEST, <<"No Content-Type set">>)
    ELSE IF content_type \notin {FORM, JSON}
        THEN abort(HTTP_400_BAD_REQUEST, <<"Unsupported Content-Type:", content_type>>)
    ELSE IF content_type = FORM /\
            (~IsForm(payload)
             \/ ~({"name", "category", "available", "gender"} \subseteq DOMAIN payload.form))
        THEN abort(HTTP_400_BAD_REQUEST, <<"KeyError">>)
    ELSE IF content_type = JSON /\ ~IsJson(payload)
        THEN abort(HTTP_400_BAD_REQUEST, <<"Failed to decode JSON object">>)
    ELSE
        LET data == IF content_type = FORM THEN FormData(payload.form) ELSE payload.json
        IN  IF ~Valid(data) THEN abort(HTTP_400_BAD_REQUEST, <<"DataValidationError">>)
            ELSE LET pet == [deserialize(NewPet, data) EXCEPT !.id = nextId]
                 IN  Outcome(HTTP_201_CREATED, [pet |-> serialize(pet)],
                             [Location |-> <<"/pets", pet.id>>],
                             create(store, nextId, pet), nextId + 1)

\* faulty variant: the record is looked up before the Content-Type is checked
update_pets_find_first(pet_id, content_type, payload) ==
    IF ~Found(store, pet_id)
        THEN abort(HTTP_404_NOT_FOUND, <<"Pet with id", pet_id, "was not found.">>)
    ELSE IF check_content_type(content_type, JSON).status # 0
        THEN abort(check_content_type(content_type, JSON).status,
                   check_content_type(content_type, JSON).message)
    ELSE IF ~IsJson(payload)
        THEN abort(HTTP_400_BAD_REQUEST, <<"Failed to decode JSON object">>)
    ELSE IF ~Valid(payload.json) THEN abort(HTTP_400_BAD_REQUEST, <<"DataValidationError">>)
    ELSE LET pet == [deserialize(find(store, pet_id), payload.json) EXCEPT !.id = pet_id]
         IN  Outcome(HTTP_200_OK, [pet |-> serialize(pet)], NoArg, update(store, pet), nextId)

\* faulty variant: pet.id = pet_id is missing and an id in the body is kept
update_pets_body_id(pet_id, content_type, payload) ==
    IF check_content_type(content_type, JSON).status # 0
        THEN abort(check_content_type(content_type, JSON).status,
                   check_content_type(content_type, JSON).message)
    ELSE IF ~Found(store, pet_id)
        THEN abort(HTTP_404_NOT_FOUND, <<"Pet with id", pet_id, "was not found.">>)
    ELSE IF ~IsJson(payload)
        THEN abort(HTTP_400_BAD_REQUEST, <<"Failed to decode JSON object">>)
    ELSE IF ~Valid(payload.json) THEN abort(HTTP_400_BAD_REQUEST, <<"DataValidationError">>)
    ELSE LET id == IF "id" \in DOMAIN payload.json THEN payload.json.id ELSE pet_id
             pet == [deserialize(find(store, pet_id), payload.json) EXCEPT !.id = id]
         IN  Outcome(HTTP_200_OK, [pet |-> serialize(pet)], NoArg, update(store, pet), nextId)

\* faulty variant: the fields read before the validation error are persisted
update_pets_persist_first(pet_id, content_type, payload) ==
    IF check_content_type(content_type, JSON).status # 0
        THEN abort(check_content_type(content_type, JSON).status,
                   check_content_type(content_type, JSON).message)
    ELSE IF ~Found(store, pet_id)
        THEN abort(HTTP_404_NOT_FOUND, <<"Pet with id", pet_id, "was not found.">>)
    ELSE IF ~IsJson(payload)
        THEN abort(HTTP_400_BAD_REQUEST, <<"Failed to decode JSON object">>)
    ELSE IF ~Valid(payload.json)
        THEN IF {"name", "category", "available"} \subseteq DOMAIN payload.json
                THEN Outcome(HTTP_400_BAD_REQUEST, [message |-> <<"DataValidationError">>], NoArg,
                             update(store, [find(store, pet_id) EXCEPT
                                               !.name = payload.json.name,
                                               !.category = payload.json.category,
                                               !.available = payload.json.available]),
                             nextId)
             ELSE abort(HTTP_400_BAD_REQUEST, <<"DataValidationError">>)
    ELSE LET pet == [deserialize(find(store, pet_id), payload.json) EXCEPT !.id = pet_id]
         IN  Outcome(HTTP_200_OK, [pet |-> serialize(pet)], NoArg, update(store, pet), nextId)

update_pets(pet_id, content_type, payload) ==
    IF check_content_type(content_type, JSON).status # 0
        THEN abort(check_content_type(content_type, JSON).status,
                   check_content_type(content_type, JSON).message)
    ELSE IF ~Found(store, pet_id)
        THEN abort(HTTP_404_NOT_FOUND, <<"Pet with id", pet_id, "was not found.">>)
    ELSE IF ~IsJson(payload)
        THEN abort(HTTP_400_BAD_REQUEST, <<"Failed to decode JSON object">>)
    ELSE IF ~Valid(payload.json) THEN abort(HTTP_400_BAD_REQUEST, <<"DataValidationError">>)
    ELSE LET pet == [deserialize(find(store, pet_id), payload.json) EXCEPT !.id = pet_id]
         IN  Outcome(HTTP_200_OK, [pet |-> serialize(pet)], NoArg, update(store, pet), nextId)

\* faulty variant: deleting an absent id is reported as 404
delete_pets_404(pet_id) ==
    IF ~Found(store, pet_id)
        THEN abort(HTTP_404_NOT_FOUND, <<"Pet with id", pet_id, "was not found.">>)
    ELSE Outcome(HTTP_204_NO_CONTENT, [text |-> ""], NoArg, delete(store, find(store, pet_id)), nextId)

delete_pets(pet_id) ==
    Outcome(HTTP_204_NO_CONTENT, [text |-> ""], NoArg,
            IF Found(store, pet_id) THEN delete(store, find(store, pet_id)) ELSE store,
            nextId)

\* faulty variant: the availability check is missing
purchase_pets_unchecked(pet_id) ==
    IF ~Found(store, pet_id)
        THEN abort(HTTP_404_NOT_FOUND, <<"Pet with id", pet_id, "was not found.">>)
    ELSE LET pet == [find(store, pet_id) EXCEPT !.available = FALSE]
         IN  Outcome(HTTP_200_OK, [pet |-> serialize(pet)], NoArg, update(store, pet), nextId)

\* faulty variant: the flag is toggled instead of cleared
purchase_pets_toggle(pet_id) ==
    IF ~Found(store, pet_id)
        THEN abort(HTTP_404_NOT_FOUND, <<"Pet with id", pet_id, "was not found.">>)
    ELSE LET pet == [find(store, pet_id) EXCEPT !.available = ~@]
         IN  Outcome(HTTP_200_OK, [pet |-> serialize(pet)], NoArg, update(store, pet), nextId)

purchase_pets(pet_id) ==
    IF ~Found(store, pet_id)
        THEN abort(HTTP_404_NOT_FOUND, <<"Pet with id", pet_id, "was not found.">>)
    ELSE IF ~find(store, pet_id).available
        THEN abort(HTTP_409_CONFLICT, <<"Pet with id", pet_id, "is not available.">>)
    ELSE LET pet == [find(store, pet_id) EXCEPT !.available = FALSE]
         IN  Outcome(HTTP_200_OK, [pet |-> serialize(pet)], NoArg, update(store, pet), nextId)

----------------------------------------------------------------------------
(* Sequential service: one request is handled to completion per step *)

Drop(f, id) == [i \in DOMAIN f \ {id} |-> f[i]]

\* a request q arrives when none is in progress and is handled with outcome o
Handle(q, o) ==
    /\ req = NoRequest
    /\ req' = q
    /\ resp' = [status |-> o.status, body |-> o.body, headers |-> o.headers]
    /\ store' = o.store
    /\ nextId' = o.nextId
    /\ before' = store
    /\ fresh' = IF q.op = "create" /\ o.status = HTTP_201_CREATED
                    THEN [i \in DOMAIN fresh \cup {o.body.pet.id} |->
                             IF i = o.body.pet.id THEN o.body.pet ELSE fresh[i]]
                ELSE IF q.op \in {"update", "purchase", "delete"} /\ o.status < 400
                    THEN Drop(fresh, q.pet_id)
                ELSE fresh
    /\ sold' = IF q.op = "purchase" /\ o.status = HTTP_200_OK THEN sold \cup {q.pet_id}
               ELSE IF q.op = "update" /\ o.status = HTTP_200_OK THEN sold \ {q.pet_id}
               ELSE sold
    /\ soldKept' = IF q.op = "purchase" /\ o.status = HTTP_200_OK THEN soldKept \cup {q.pet_id}
                   ELSE IF q.op = "update" /\ o.status = HTTP_200_OK THEN soldKept \ {q.pet_id}
                   ELSE IF q.op = "delete" THEN soldKept \ {q.pet_id}
                   ELSE soldKept
    /\ UNCHANGED concvars

Index == Handle([op |-> "index"], index)

List ==
    \E c \in CategoryArgs, n \in NameArgs, a \in AvailableArgs, g \in GenderArgs :
        LET args == c @@ n @@ a @@ g
        IN  Handle([op |-> "list", args |-> args], list_pets(args))

Retrieve == \E pet_id \in PetIds : Handle([op |-> "retrieve", pet_id |-> pet_id], get_pets(pet_id))

CreateWith(ct, p) ==
    Handle([op |-> "create", content_type |-> ct, payload |-> p], create_pets(ct, p))

Create ==
    /\ nextId <= MaxPets
    /\ \E ct \in ContentTypes :
          \/ \E d \in JsonPayloads : CreateWith(ct, JsonBody(d))
          \/ \E d \in FormPayloads : CreateWith(ct, FormBody(d))

UpdateWith(pet_id, ct, p) ==
    Handle([op |-> "update", pet_id |-> pet_id, content_type |-> ct, payload |-> p],
           update_pets(pet_id, ct, p))

Update ==
    \E pet_id \in PetIds, ct \in ContentTypes :
        \/ \E d \in JsonPayloads : UpdateWith(pet_id, ct, JsonBody(d))
        \/ \E d \in FormPayloads : UpdateWith(pet_id, ct, FormBody(d))

Delete == \E pet_id \in PetIds : Handle([op |-> "delete", pet_id |-> pet_id], delete_pets(pet_id))

Purchase ==
    \E pet_id \in PetIds : Handle([op |-> "purchase", pet_id |-> pet_id], purchase_pets(pet_id))

\* the response is sent and the request context is dropped: the handler
\* layer keeps nothing between requests
Respond ==
    /\ req # NoRequest
    /\ req' = NoRequest
    /\ resp' = NoResponse
    /\ before' = store
    /\ UNCHANGED <<store, nextId, fresh, sold, soldKept>>
    /\ UNCHANGED concvars

ConcIdle ==
    /\ pc = [w \in Workers |-> "idle"]
    /\ wid = [w \in Workers |-> 0]
    /\ wpet = [w \in Workers |-> NewPet]
    /\ wstatus = [w \in Workers |-> 0]
    /\ wread = [w \in Workers |-> FALSE]
    /\ wseen = [w \in Workers |-> 0]
    /\ writes = [i \in PetIds |-> 0]

Init ==
    /\ store = NoArg
    /\ nextId = 1
    /\ req = NoRequest
    /\ resp = NoResponse
    /\ before = NoArg
    /\ fresh = NoArg
    /\ sold = {}
    /\ soldKept = {}
    /\ ConcIdle

Next == Index \/ List \/ Retrieve \/ Create \/ Update \/ Delete \/ Purchase \/ Respond

Spec == Init /\ [][Next]_vars

----------------------------------------------------------------------------
(* Concurrent purchases: two purchase_pets handlers run at once, each one  *)
(* split at its store calls (Pet.find, then pet.update); this layer takes  *)
(* no lock.                                                                *)

JsonPet(n, d) == [deserialize(NewPet, d) EXCEPT !.id = n]

\* the store after MaxPets POSTs of the first JSON payload (all available)
StockedStore ==
    [i \in PetIds |->
        JsonPet(i, [name |-> "fido", category |-> "dog", available |-> TRUE, gender |-> "MALE"])]

InitConc ==
    /\ store = StockedStore
    /\ nextId = MaxPets + 1
    /\ req = NoRequest
    /\ resp = NoResponse
    /\ before = StockedStore
    /\ fresh = NoArg
    /\ sold = {}
    /\ soldKept = {}
    /\ ConcIdle

\* lines 202-209: Pet.find, the two aborts, and pet.available = False on the object
purchase_find(w, pet_id) ==
    /\ pc[w] = "idle"
    /\ wid' = [wid EXCEPT ![w] = pet_id]
    /\ IF ~Found(store, pet_id)
         THEN /\ pc' = [pc EXCEPT ![w] = "done"]
              /\ wstatus' = [wstatus EXCEPT ![w] = HTTP_404_NOT_FOUND]
              /\ wread' = [wread EXCEPT ![w] = FALSE]
              /\ UNCHANGED <<wpet, wseen>>
       ELSE /\ wread' = [wread EXCEPT ![w] = find(store, pet_id).available]
            /\ wseen' = [wseen EXCEPT ![w] = writes[pet_id]]
            /\ IF ~find(store, pet_id).available
                 THEN /\ pc' = [pc EXCEPT ![w] = "done"]
                      /\ wstatus' = [wstatus EXCEPT ![w] = HTTP_409_CONFLICT]
                      /\ UNCHANGED wpet
               ELSE /\ pc' = [pc EXCEPT ![w] = "update"]
                    /\ wpet' = [wpet EXCEPT ![w] = [find(store, pet_id) EXCEPT !.available = FALSE]]
                    /\ UNCHANGED wstatus
    /\ UNCHANGED <<store, nextId, writes>>
    /\ UNCHANGED seqvars

\* faulty variant: the write re-reads the flag under a lock and gives way (409)
purchase_update_cas(w) ==
    /\ pc[w] = "update"
    /\ IF find(store, wid[w]).available
         THEN /\ store' = update(store, wpet[w])
              /\ writes' = [writes EXCEPT ![wid[w]] = @ + 1]
              /\ wstatus' = [wstatus EXCEPT ![w] = HTTP_200_OK]
       ELSE /\ wstatus' = [wstatus EXCEPT ![w] = HTTP_409_CONFLICT]
            /\ UNCHANGED <<store, writes>>
    /\ pc' = [pc EXCEPT ![w] = "done"]
    /\ UNCHANGED <<nextId, wid, wpet, wread, wseen>>
    /\ UNCHANGED seqvars

\* lines 210-211: pet.update() and the 200 response
purchase_update(w) ==
    /\ pc[w] = "update"
    /\ store' = update(store, wpet[w])
    /\ writes' = [writes EXCEPT ![wid[w]] = @ + 1]
    /\ pc' = [pc EXCEPT ![w] = "done"]
    /\ wstatus' = [wstatus EXCEPT ![w] = HTTP_200_OK]
    /\ UNCHANGED <<nextId, wid, wpet, wread, wseen>>
    /\ UNCHANGED seqvars

\* the response is sent and the worker is free for the next purchase request
purchase_respond(w) ==
    /\ pc[w] = "done"
    /\ pc' = [pc EXCEPT ![w] = "idle"]
    /\ UNCHANGED <<store, nextId, wid, wpet, wstatus, wread, wseen, writes>>
    /\ UNCHANGED seqvars

PurchaseFind == \E w \in Workers, pet_id \in 1..(MaxPets + 1) : purchase_find(w, pet_id)
PurchaseUpdate == \E w \in Workers : purchase_update(w)
PurchaseRespond == \E w \in Workers : purchase_respond(w)

NextConc == PurchaseFind \/ PurchaseUpdate \/ PurchaseRespond

SpecConc == InitConc /\ [][NextConc]_vars

----------------------------------------------------------------------------
(* Properties.  In a state with req # NoRequest, `before` is the store the *)
(* request found and `store` the store it left.                            *)

Serialized(pets) == [i \in 1..Len(pets) |-> serialize(pets[i])]

NoContentType(ct) == ct = None \/ ct = ""

\* ---- C1 ----
\* C1 (as stated): a Purchase of an existing available Pet returns 200 and
\* leaves the stored flag false; every later Purchase of that id with no
\* successful Update in between returns 409 and leaves the flag false.
C1_PurchaseThenConflict_Original ==
    [][req'.op = "purchase" =>
          LET id == req'.pet_id
          IN  /\ (Found(store, id) /\ store[id].available) =>
                    /\ resp'.status = HTTP_200_OK
                    /\ Found(store', id) /\ ~store'[id].available
              /\ id \in sold =>
                    /\ resp'.status = HTTP_409_CONFLICT
                    /\ Found(store', id) /\ ~store'[id].available]_vars

\* C1 (amended): the same, for every later Purchase of that id with neither a
\* successful Update nor a Delete of that id in between.
C1_PurchaseThenConflict ==
    [][req'.op = "purchase" =>
          LET id == req'.pet_id
          IN  /\ (Found(store, id) /\ store[id].available) =>
                    /\ resp'.status = HTTP_200_OK
                    /\ Found(store', id) /\ ~store'[id].available
              /\ id \in soldKept =>
                    /\ resp'.status = HTTP_409_CONFLICT
                    /\ Found(store', id) /\ ~store'[id].available]_vars

\* a second Purchase of a purchased Pet has been answered 409
C1_Witness ==
    /\ req.op = "purchase"
    /\ req.pet_id \in soldKept
    /\ resp.status = HTTP_409_CONFLICT
    /\ ~store[req.pet_id].available

\* ---- C2 ----
\* C2: Delete returns 204 with an empty body for every id; afterwards the id is
\* not in the store and every other record is unchanged; a Delete of an id
\* that is not in the store changes nothing.
C2_DeleteIdempotent ==
    req.op = "delete" =>
        /\ resp.status = HTTP_204_NO_CONTENT
        /\ resp.body = [text |-> ""]
        /\ ~Found(store, req.pet_id)
        /\ store = Drop(before, req.pet_id)
        /\ ~Found(before, req.pet_id) => store = before

\* a Delete of an id that an earlier Delete removed, with another record kept
C2_Witness ==
    /\ req.op = "delete"
    /\ req.pet_id < nextId
    /\ ~Found(before, req.pet_id)
    /\ resp.status = HTTP_204_NO_CONTENT
    /\ DOMAIN store # {}

\* ---- C3 ----
\* C3: a Retrieve of an id returned by a successful Create, before any Update,
\* Purchase or Delete of that id, returns 200 with the record Create returned.
C3_CreateRetrieveRoundTrip ==
    [][(req'.op = "retrieve" /\ req'.pet_id \in DOMAIN fresh) =>
          /\ resp'.status = HTTP_200_OK
          /\ resp'.body = [pet |-> fresh[req'.pet_id]]]_vars

\* a created Pet (here one whose flag was parsed from a form) has been retrieved
C3_Witness ==
    /\ req.op = "retrieve"
    /\ req.pet_id \in DOMAIN fresh
    /\ resp.status = HTTP_200_OK
    /\ resp.body.pet.id = req.pet_id
    /\ resp.body.pet.name = "kitty" /\ resp.body.pet.available

\* ---- C4 ----
FilterOrder == <<"category", "name", "available", "gender">>

Supplied(args) == {i \in DOMAIN FilterOrder : Has(args, FilterOrder[i])}

SuppliedNonEmpty(args) ==
    {i \in DOMAIN FilterOrder : Has(args, FilterOrder[i]) /\ Truthy(args[FilterOrder[i]])}

First(S) == CHOOSE i \in S : \A j \in S : i <= j

\* the store's find for filter k alone
FindAlone(s, k, v) ==
    CASE k = "category" -> find_by_category(s, v)
      [] k = "name" -> find_by_name(s, v)
      [] k = "available" -> find_by_availability(s, lower(v) \in TruthyTokens)
      [] k = "gender" -> find_by_gender(s, v)

FirstFilterResult(s, args, S) ==
    IF S = {} THEN all(s)
    ELSE FindAlone(s, FilterOrder[First(S)], args[FilterOrder[First(S)]])

\* C4 (as stated): List returns 200 with the store's find for the first
\* supplied filter in the order category, name, available, gender, and all
\* records when none is supplied.
C4_FilterPrecedence_Original ==
    req.op = "list" =>
        /\ resp.status = HTTP_200_OK
        /\ resp.body.pets = Serialized(FirstFilterResult(store, req.args, Supplied(req.args)))

\* C4 (amended): List returns 200 with the store's find for the first filter
\* supplied with a non-empty value in that order, and all records when no
\* filter has a non-empty value.
C4_FilterPrecedence ==
    req.op = "list" =>
        /\ resp.status = HTTP_200_OK
        /\ resp.body.pets = Serialized(FirstFilterResult(store, req.args, SuppliedNonEmpty(req.args)))

\* category and name both set and matching different records: the category
\* matches were returned
C4_Witness ==
    /\ req.op = "list"
    /\ Has(req.args, "category") /\ Truthy(req.args.category)
    /\ Has(req.args, "name") /\ Truthy(req.args.name)
    /\ find_by_category(store, req.args.category) # find_by_name(store, req.args.name)
    /\ find_by_name(store, req.args.name) # <<>>
    /\ resp.body.pets = Serialized(find_by_category(store, req.args.category))

\* ---- C5 ----
\* C5: Create without Content-Type returns 400, with a type other than form
\* or JSON returns 400; Update without Content-Type returns 400, with a type
\* other than application/json returns 415, whether or not the id exists.
C5_ContentTypeFirst ==
    /\ (req.op = "create" /\ NoContentType(req.content_type)) =>
            resp.status = HTTP_400_BAD_REQUEST
    /\ (req.op = "create" /\ req.content_type \notin {FORM, JSON}) =>
            resp.status = HTTP_400_BAD_REQUEST
    /\ (req.op = "update" /\ NoContentType(req.content_type)) =>
            resp.status = HTTP_400_BAD_REQUEST
    /\ (req.op = "update" /\ ~NoContentType(req.content_type) /\ req.content_type # JSON) =>
            resp.status = HTTP_415_UNSUPPORTED_MEDIA_TYPE

\* an Update of an absent id with text/plain was answered 415, not 404
C5_Witness ==
    /\ req.op = "update"
    /\ req.content_type = "text/plain"
    /\ ~Found(before, req.pet_id)
    /\ resp.status = HTTP_415_UNSUPPORTED_MEDIA_TYPE

\* ---- C6 ----
UpdatedPet(id, d) ==
    [id |-> id, name |-> d.name, category |-> d.category,
     available |-> d.available, gender |-> Gender[d.gender]]

UpdateReplaces ==
    resp.status = HTTP_200_OK =>
        /\ Found(before, req.pet_id)
        /\ store = [i \in DOMAIN before |->
                      IF i = req.pet_id THEN UpdatedPet(req.pet_id, req.payload.json)
                      ELSE before[i]]
        /\ resp.body = [pet |-> serialize(store[req.pet_id])]

\* C6 (as stated): a successful Update replaces exactly the four fields of the
\* record with the path id; an Update of an absent id returns 404; the set of
\* stored ids is unchanged by every Update.
C6_UpdateFrame_Original ==
    req.op = "update" =>
        /\ UpdateReplaces
        /\ ~Found(before, req.pet_id) => resp.status = HTTP_404_NOT_FOUND
        /\ DOMAIN store = DOMAIN before

\* C6 (amended): as stated, except that an Update of an absent id returns 404
\* when its Content-Type is application/json, 400 when it has no
\* Content-Type and 415 for any other type; it never returns 200.
C6_UpdateFrame ==
    req.op = "update" =>
        /\ UpdateReplaces
        /\ ~Found(before, req.pet_id) =>
              resp.status = IF NoContentType(req.content_type) THEN HTTP_400_BAD_REQUEST
                            ELSE IF req.content_type # JSON THEN HTTP_415_UNSUPPORTED_MEDIA_TYPE
                            ELSE HTTP_404_NOT_FOUND
        /\ DOMAIN store = DOMAIN before

\* a successful Update whose body carries another id than the path
C6_Witness ==
    /\ req.op = "update"
    /\ resp.status = HTTP_200_OK
    /\ "id" \in DOMAIN req.payload.json
    /\ req.payload.json.id # req.pet_id
    /\ store[req.pet_id] # before[req.pet_id]
    /\ Cardinality(DOMAIN store) > 1

\* ---- C7 ----
\* C7: whenever the available flag of a record that stays in the store
\* changes, the step is a successful Update or Purchase of that id, and when
\* it changes to true the step is an Update; so Purchase never sets it to
\* true and List, Retrieve, Create and Delete never change it.
C7_AvailabilityMachine ==
    req.op # "none" =>
        \A id \in DOMAIN before \cap DOMAIN store :
            before[id].available # store[id].available =>
                /\ req.op \in {"update", "purchase"}
                /\ req.pet_id = id
                /\ resp.status = HTTP_200_OK
                /\ store[id].available => req.op = "update"

\* an Update has made an unavailable Pet available again
C7_Witness ==
    /\ req.op = "update"
    /\ resp.status = HTTP_200_OK
    /\ ~before[req.pet_id].available
    /\ store[req.pet_id].available

\* ---- C9 ----
\* C9: a request answered with an error status (400, 404, 409, 415) leaves the
\* store, and the id the store assigns next, as they were.
C9_ErrorsPersistNothing ==
    [][(req'.op # "none" /\ resp'.status >= 400) =>
          /\ store' = store
          /\ nextId' = nextId]_vars

\* a JSON Update of an existing Pet was rejected for its body
C9_Witness ==
    /\ req.op = "update"
    /\ req.content_type = JSON
    /\ Found(before, req.pet_id)
    /\ resp.status = HTTP_400_BAD_REQUEST
    /\ store = before

\* ---- C10 ----
AvailableOnly == 
    /\ req.op = "list"
    /\ Has(req.args, "available")
    /\ ~Has(req.args, "category")
    /\ ~Has(req.args, "name")

WithFlag(s, flag) == SelectSeq(all(s), LAMBDA p : p.available = flag)

\* C10 (as stated): List with an available value and no category or name
\* returns exactly the records whose flag equals the parsed value (true iff
\* the lower-cased value is yes, y, true, t or 1), for every supplied value,
\* the empty string included.
C10_AvailableFilter_Original ==
    AvailableOnly =>
        resp.body.pets = Serialized(WithFlag(store, lower(req.args.available) \in TruthyTokens))

\* C10 (amended): the same for every non-empty supplied value; an empty value
\* is treated as if available were not supplied.
C10_AvailableFilter ==
    (AvailableOnly /\ Truthy(req.args.available)) =>
        resp.body.pets = Serialized(WithFlag(store, lower(req.args.available) \in TruthyTokens))

\* available=Yes was answered with the available records of a mixed store
C10_Witness ==
    /\ AvailableOnly
    /\ req.args.available = <<"Y", "e", "s">>
    /\ WithFlag(store, TRUE) # <<>>
    /\ WithFlag(store, FALSE) # <<>>
    /\ resp.body.pets = Serialized(WithFlag(store, TRUE))

\* ---- C8 (SpecConc) ----
\* C8: nothing in this layer re-checks the flag at the write: a purchase
\* handler returns 200 exactly when the flag it read was true, whatever the
\* other handler wrote in between.
C8_NoRecheckAtWrite ==
    \A w \in Workers :
        pc[w] = "done" => (wstatus[w] = HTTP_200_OK <=> wread[w])

\* both handlers read available=true before either wrote, and both returned
\* 200 for the same Pet
C8_Witness ==
    \E id \in PetIds :
        /\ \A w \in Workers :
              /\ pc[w] = "done"
              /\ wid[w] = id
              /\ wread[w]
              /\ wseen[w] = 0
              /\ wstatus[w] = HTTP_200_OK
        /\ writes[id] = Cardinality(Workers)

====
